---------------------------- MODULE Spec2Model ----------------------------
(***************************************************************************)
(* SolDash pattern analysis engine (Backend/analysis.py) over the          *)
(* historical_games table (Backend/database.py), with the ingestion        *)
(* arithmetic (Backend/collector.py), the bulk import and the live game    *)
(* cache (Backend/main.py).                                                *)
(*                                                                         *)
(* Representation choices:                                                 *)
(*  - a Python dict is a sequence of <<key, value>> items in insertion     *)
(*    order, so that iteration order (and with it the tie-break of         *)
(*    max/min) is part of the model;                                       *)
(*  - a percentage is an integer number of hundredths of a percent         *)
(*    (33.33 is 3333), the result of round(x, 2);                          *)
(*  - a game record is a record with a game_id and, unless the decile is   *)
(*    missing, a decile field; the other columns play no part in the       *)
(*    analysis.                                                            *)
(***************************************************************************)
EXTENDS Integers, Sequences, FiniteSets, TLC

VARIABLES
    store,    \* rows of the historical_games table
    pc,       \* position of the analyzer call in progress
    call,     \* which operation is in progress ("none" when idle)
    frame,    \* compare_patterns: the patterns computed so far
    result,   \* the value returned by the last completed operation
    args,     \* the argument of a function applied on its own
    queries,  \* the get_games queries issued by the call in progress:
              \* their limit and whether the database raised
    peer,     \* a second client's analyzer call: its pc, call, frame,
              \* result and queries
    imp,      \* the POST /import request in progress
    live_game_cache,  \* main.live_game_cache
    now       \* datetime.utcnow(), in seconds

\* the state outside the first client's analyzer call
aside == <<peer, imp, live_game_cache, now>>

vars == <<store, pc, call, frame, result, args, queries, aside>>

\* Python's None, and a value that is not None
None == << >>
Some(v) == <<v>>

IdleCaller ==
    [pc |-> "idle", call |-> "none", frame |-> << >>,
     result |-> [op |-> "none"], queries |-> << >>]

IdleImport ==
    [pc |-> "idle", games |-> << >>, total |-> 0, inserted |-> 0,
     returned |-> << >>, response |-> None]

InitAside ==
    /\ peer = IdleCaller
    /\ imp = IdleImport
    /\ live_game_cache = [data |-> None, last_updated |-> None]
    /\ now = 0

---------------------------------------------------------------------------
(* Bounds of the model *)

MaxGameId == 4      \* game ids offered to insert_game under Spec
MaxGames == 12      \* largest history under SpecInsight
MaxLen == 4         \* longest record list under SpecDist
MaxTotal == 6       \* largest total of a distribution under SpecStats

GameIds == 1..MaxGameId
\* deciles offered to insert_game: 0 is out of range, 1 and 2 are deciles
DecileInputs == {0, 1, 2}
\* requested window sizes (the API accepts 1..100)
CountInputs == {2, 10, 12}

---------------------------------------------------------------------------
(* Program constants *)

Window10 == 10
Window30 == 30
Window50 == 50
MinSample == 10

Deciles == 1..10

---------------------------------------------------------------------------
(* Python helpers *)

Min2(a, b) == IF a <= b THEN a ELSE b

\* d[k]
DictGet(d, k) == d[CHOOSE i \in 1..Len(d) : d[i][1] = k][2]

\* {i: v for i in range(1, 11)}
DictOfRange(v) == [i \in 1..10 |-> <<i, v>>]

\* game.get('decile', 0)
GameDecile(game) == IF "decile" \in DOMAIN game THEN game.decile ELSE 0

\* a slip of round(x, 2): the digits after the second decimal are cut off
round2_truncating(count, total) == (count * 10000) \div total

\* round((count / total) * 100, 2), in hundredths of a percent.  Python
\* rounds the double to the nearest 2-decimal value, an exact tie going to
\* the even neighbour; for totals up to 100 the double product is far from
\* every tie it does not hit exactly.
round2(count, total) ==
    LET n == count * 10000
        q == n \div total
        r == n % total
    IN  IF 2 * r > total \/ (2 * r = total /\ q % 2 = 1) THEN q + 1 ELSE q

---------------------------------------------------------------------------
(* database.py *)

RECURSIVE OrderDesc(_)
\* .order('game_id', desc=True)
OrderDesc(rows) ==
    IF rows = {} THEN << >>
    ELSE LET top == CHOOSE r \in rows : \A q \in rows : q.game_id <= r.game_id
         IN  <<top>> \o OrderDesc(rows \ {top})

\* get_games without .limit(limit): every row is returned
get_games_unlimited(limit, fails) ==
    IF fails THEN << >> ELSE OrderDesc(store)

\* get_games: the query, or [] when the query raises
get_games(limit, fails) ==
    IF fails THEN << >>
    ELSE LET rows == OrderDesc(store)
         IN  SubSeq(rows, 1, Min2(limit, Len(rows)))

get_games_for_pattern_analysis(count, fails) == get_games(count, fails)

---------------------------------------------------------------------------
(* analysis.py: the pure functions *)

RECURSIVE CountGames(_, _)
\* the counting loop of analyze_decile_distribution
CountGames(distribution, games) ==
    IF games = << >> THEN distribution
    ELSE LET decile == GameDecile(Head(games))
             counted ==
                 IF 1 <= decile /\ decile <= 10
                 THEN [i \in 1..Len(distribution) |->
                          IF distribution[i][1] = decile
                          THEN <<decile, distribution[i][2] + 1>>
                          ELSE distribution[i]]
                 ELSE distribution
         IN  CountGames(counted, Tail(games))

\* a slip of analyze_decile_distribution: the range test excludes decile 10
analyze_upper_exclusive(games) ==
    [i \in 1..10 |->
        <<i, Cardinality({j \in 1..Len(games) :
                             /\ GameDecile(games[j]) = i
                             /\ GameDecile(games[j]) < 10})>>]

\* a slip of analyze_decile_distribution: the loop ends at the first record
\* whose decile is missing or out of range instead of skipping it
analyze_until_invalid(games) ==
    LET bad == {j \in 1..Len(games) : GameDecile(games[j]) \notin 1..10}
        stop == IF bad = {} THEN Len(games) + 1
                ELSE CHOOSE j \in bad : \A k \in bad : j <= k
    IN  [i \in 1..10 |->
            <<i, Cardinality({j \in 1..(stop - 1) :
                                 GameDecile(games[j]) = i})>>]

analyze_decile_distribution(games) == CountGames(DictOfRange(0), games)

calculate_decile_percentages(distribution, total_games) ==
    IF total_games = 0 THEN DictOfRange(0)
    ELSE [i \in 1..Len(distribution) |->
             <<distribution[i][1], round2(distribution[i][2], total_games)>>]

RECURSIVE MaxItem(_, _)
\* max(items, key=lambda x: x[1]): the first item with the largest value
MaxItem(best, items) ==
    IF items = << >> THEN best
    ELSE MaxItem(IF Head(items)[2] > best[2] THEN Head(items) ELSE best,
                 Tail(items))

RECURSIVE MinItem(_, _)
\* min(items, key=lambda x: x[1]): the first item with the smallest value
MinItem(best, items) ==
    IF items = << >> THEN best
    ELSE MinItem(IF Head(items)[2] < best[2] THEN Head(items) ELSE best,
                 Tail(items))

\* a slip of find_most_common_decile: among equal counts the last key wins
find_most_common_last(distribution) ==
    IF distribution = << >> THEN 1
    ELSE distribution[CHOOSE i \in 1..Len(distribution) :
             /\ \A j \in 1..Len(distribution) :
                    distribution[j][2] <= distribution[i][2]
             /\ \A j \in (i + 1)..Len(distribution) :
                    distribution[j][2] < distribution[i][2]][1]

find_most_common_decile(distribution) ==
    IF distribution = << >> THEN 1
    ELSE MaxItem(Head(distribution), Tail(distribution))[1]

find_least_common_decile(distribution) ==
    IF distribution = << >> THEN 1
    ELSE MinItem(Head(distribution), Tail(distribution))[1]

\* a slip of get_pattern_summary: the empty analysis names no decile (0)
summary_of_games_no_default(games) ==
    IF games = << >>
    THEN [game_count |-> 0,
          decile_distribution |-> DictOfRange(0),
          decile_percentages |-> DictOfRange(0),
          most_common_decile |-> 0,
          least_common_decile |-> 0]
    ELSE LET distribution == analyze_decile_distribution(games)
         IN  [game_count |-> Len(games),
              decile_distribution |-> distribution,
              decile_percentages |->
                  calculate_decile_percentages(distribution, Len(games)),
              most_common_decile |-> find_most_common_decile(distribution),
              least_common_decile |-> find_least_common_decile(distribution)]

\* get_pattern_summary after the fetch
summary_of_games(games) ==
    IF games = << >>
    THEN [game_count |-> 0,
          decile_distribution |-> DictOfRange(0),
          decile_percentages |-> DictOfRange(0),
          most_common_decile |-> 1,
          least_common_decile |-> 1]
    ELSE LET distribution == analyze_decile_distribution(games)
         IN  [game_count |-> Len(games),
              decile_distribution |-> distribution,
              decile_percentages |->
                  calculate_decile_percentages(distribution, Len(games)),
              most_common_decile |-> find_most_common_decile(distribution),
              least_common_decile |-> find_least_common_decile(distribution)]

get_pattern_summary(game_count, fails) ==
    summary_of_games(get_games_for_pattern_analysis(game_count, fails))

\* compare_patterns once its three summaries are computed
\* a slip of compare_patterns: the first and the last window under each
\* other's key
comparison_of_swapped(pattern_10, pattern_30, pattern_50) ==
    [last_10_games |-> pattern_50,
     last_30_games |-> pattern_30,
     last_50_games |-> pattern_10]

comparison_of(pattern_10, pattern_30, pattern_50) ==
    [last_10_games |-> pattern_10,
     last_30_games |-> pattern_30,
     last_50_games |-> pattern_50]

STABLE == "STABLE - Same hot decile across all time windows"
RECENT_SHIFT == "RECENT_SHIFT - Pattern changed in last 30 games"
NEW_TREND == "NEW_TREND - New pattern emerging in last 10 games"
VOLATILE == "VOLATILE - Pattern changing frequently"

\* a slip of _determine_trend: the first test compares two windows only
determine_trend_two_windows(comparison) ==
    LET most_common_10 == comparison.last_10_games.most_common_decile
        most_common_30 == comparison.last_30_games.most_common_decile
        most_common_50 == comparison.last_50_games.most_common_decile
    IN  IF most_common_10 = most_common_30
        THEN STABLE
        ELSE IF most_common_30 = most_common_50
        THEN NEW_TREND
        ELSE VOLATILE

_determine_trend(comparison) ==
    LET most_common_10 == comparison.last_10_games.most_common_decile
        most_common_30 == comparison.last_30_games.most_common_decile
        most_common_50 == comparison.last_50_games.most_common_decile
    IN  IF most_common_10 = most_common_30 /\ most_common_30 = most_common_50
        THEN STABLE
        ELSE IF most_common_10 = most_common_30
        THEN RECENT_SHIFT
        ELSE IF most_common_30 = most_common_50
        THEN NEW_TREND
        ELSE VOLATILE

\* a slip of get_pattern_shift_analysis: consistent compares two windows only
shift_of_two_windows(comparison) ==
    [most_common_10 |-> comparison.last_10_games.most_common_decile,
     most_common_30 |-> comparison.last_30_games.most_common_decile,
     most_common_50 |-> comparison.last_50_games.most_common_decile,
     consistent |->
         comparison.last_10_games.most_common_decile =
             comparison.last_30_games.most_common_decile,
     trend |-> _determine_trend(comparison)]

\* get_pattern_shift_analysis after compare_patterns has returned
shift_of(comparison) ==
    [most_common_10 |-> comparison.last_10_games.most_common_decile,
     most_common_30 |-> comparison.last_30_games.most_common_decile,
     most_common_50 |-> comparison.last_50_games.most_common_decile,
     consistent |->
         /\ comparison.last_10_games.most_common_decile =
                comparison.last_30_games.most_common_decile
         /\ comparison.last_30_games.most_common_decile =
                comparison.last_50_games.most_common_decile,
     trend |-> _determine_trend(comparison)]

ranges ==
    <<"0-10% of pot (Very Low)",
      "11-20% of pot (Low)",
      "21-30% of pot (Low-Medium)",
      "31-40% of pot (Medium-Low)",
      "41-50% of pot (Medium)",
      "51-60% of pot (Medium-High)",
      "61-70% of pot (High-Medium)",
      "71-80% of pot (High)",
      "81-90% of pot (Very High)",
      "91-100% of pot (Extreme High)">>

get_decile_range_description(decile) ==
    IF decile \in DOMAIN ranges THEN ranges[decile] ELSE "Unknown"

RECURSIVE Join(_, _)
\* sep.join(strings)
Join(sep, strings) ==
    IF strings = << >> THEN ""
    ELSE IF Len(strings) = 1 THEN strings[1]
    ELSE strings[1] \o sep \o Join(sep, Tail(strings))

\* [d for d, count in items if count >= game_count * 0.15]: the double
\* product game_count * 0.15 and the exact 15 * game_count / 100 admit the
\* same integer counts for every game_count the API accepts (1..100)
hot_deciles_of(distribution, game_count) ==
    LET Hot(item) == item[2] * 100 >= game_count * 15
        items == SelectSeq(distribution, Hot)
    IN  [i \in 1..Len(items) |-> items[i][1]]

\* [d for d, count in items if count == 0]
cold_deciles_of(distribution) ==
    LET Cold(item) == item[2] = 0
        items == SelectSeq(distribution, Cold)
    IN  [i \in 1..Len(items) |-> items[i][1]]

\* a slip of _generate_recommendation: every hot zone is listed, not three
generate_recommendation_all_zones(pattern, hot_deciles, cold_deciles) ==
    IF pattern.game_count < MinSample
    THEN "Insufficient data for reliable recommendations. Collect more historical games."
    ELSE IF Len(hot_deciles) = 1
    THEN "Strong pattern detected: "
             \o get_decile_range_description(hot_deciles[1])
             \o " is winning frequently. Consider positioning bets in this range."
    ELSE IF Len(hot_deciles) > 5
    THEN "Pattern is widely distributed. No clear hot zone. Use standard probability-based betting."
    ELSE IF hot_deciles # << >>
    THEN "Multiple hot zones detected: "
             \o Join(", ", [i \in 1..Len(hot_deciles) |->
                                get_decile_range_description(hot_deciles[i])])
             \o ". Spread bets across these ranges."
    ELSE "Pattern appears random. Use bankroll management and expected value calculations."

\* a slip of _generate_recommendation: a sample of exactly 10 is too small
generate_recommendation_strict_sample(pattern, hot_deciles, cold_deciles) ==
    IF pattern.game_count <= MinSample
    THEN "Insufficient data for reliable recommendations. Collect more historical games."
    ELSE IF Len(hot_deciles) = 1
    THEN "Strong pattern detected: "
             \o get_decile_range_description(hot_deciles[1])
             \o " is winning frequently. Consider positioning bets in this range."
    ELSE IF Len(hot_deciles) > 5
    THEN "Pattern is widely distributed. No clear hot zone. Use standard probability-based betting."
    ELSE IF hot_deciles # << >>
    THEN "Multiple hot zones detected: "
             \o Join(", ", [i \in 1..Min2(3, Len(hot_deciles)) |->
                                get_decile_range_description(hot_deciles[i])])
             \o ". Spread bets across these ranges."
    ELSE "Pattern appears random. Use bankroll management and expected value calculations."

_generate_recommendation(pattern, hot_deciles, cold_deciles) ==
    IF pattern.game_count < MinSample
    THEN "Insufficient data for reliable recommendations. Collect more historical games."
    ELSE IF Len(hot_deciles) = 1
    THEN "Strong pattern detected: "
             \o get_decile_range_description(hot_deciles[1])
             \o " is winning frequently. Consider positioning bets in this range."
    ELSE IF Len(hot_deciles) > 5
    THEN "Pattern is widely distributed. No clear hot zone. Use standard probability-based betting."
    ELSE IF hot_deciles # << >>
    THEN "Multiple hot zones detected: "
             \o Join(", ", [i \in 1..Min2(3, Len(hot_deciles)) |->
                                get_decile_range_description(hot_deciles[i])])
             \o ". Spread bets across these ranges."
    ELSE "Pattern appears random. Use bankroll management and expected value calculations."

\* a slip of get_strategic_insight: the hot threshold is scaled to the
\* number of games fetched instead of the number requested
insight_of_sample_threshold(pattern, game_count) ==
    LET hot_deciles == hot_deciles_of(pattern.decile_distribution,
                                      pattern.game_count)
        cold_deciles == cold_deciles_of(pattern.decile_distribution)
    IN  [hot_zones |-> hot_deciles,
         cold_zones |-> cold_deciles,
         most_common_range |->
             get_decile_range_description(pattern.most_common_decile),
         least_common_range |->
             get_decile_range_description(pattern.least_common_decile),
         sample_size |-> pattern.game_count,
         recommendation |->
             _generate_recommendation(pattern, hot_deciles, cold_deciles)]

\* get_strategic_insight once get_pattern_summary has returned pattern
insight_of(pattern, game_count) ==
    LET hot_deciles == hot_deciles_of(pattern.decile_distribution, game_count)
        cold_deciles == cold_deciles_of(pattern.decile_distribution)
    IN  [hot_zones |-> hot_deciles,
         cold_zones |-> cold_deciles,
         most_common_range |->
             get_decile_range_description(pattern.most_common_decile),
         least_common_range |->
             get_decile_range_description(pattern.least_common_decile),
         sample_size |-> pattern.game_count,
         recommendation |->
             _generate_recommendation(pattern, hot_deciles, cold_deciles)]

---------------------------------------------------------------------------
(* Spec: one analyzer caller and the ingestion path over one store *)

Init ==
    /\ store = {}
    /\ pc = "idle"
    /\ call = "none"
    /\ frame = << >>
    /\ result = [op |-> "none"]
    /\ args = << >>
    /\ queries = << >>
    /\ InitAside

\* insert_game: the row is inserted unless a row with this game_id exists;
\* a query that raises leaves the table as the duplicate case does
InsertGame(g, d) ==
    /\ store' = IF \E r \in store : r.game_id = g
                THEN store
                ELSE store \cup {[game_id |-> g, decile |-> d]}
    /\ UNCHANGED <<pc, call, frame, result, args, queries, aside>>

\* GET /patterns: get_pattern_summary(count)
Summarize(n, fails) ==
    /\ pc = "idle"
    /\ pc' = "done"
    /\ LET games == get_games_for_pattern_analysis(n, fails)
       IN  result' = [op |-> "summary", game_count |-> n, games |-> games,
                      value |-> summary_of_games(games)]
    /\ queries' = <<[limit |-> n, fails |-> fails]>>
    /\ UNCHANGED <<store, call, frame, args, aside>>

\* GET /insights: get_strategic_insight(count)
StrategicInsight(n, fails) ==
    /\ pc = "idle"
    /\ pc' = "done"
    /\ LET games == get_games_for_pattern_analysis(n, fails)
           pattern == summary_of_games(games)
       IN  result' = [op |-> "insight", game_count |-> n, games |-> games,
                      pattern |-> pattern, value |-> insight_of(pattern, n)]
    /\ queries' = <<[limit |-> n, fails |-> fails]>>
    /\ UNCHANGED <<store, call, frame, args, aside>>

\* compare_patterns, entered directly ("compare") or from
\* get_pattern_shift_analysis ("shift"): pattern_10
CompareFetch10(op, fails) ==
    /\ pc = "idle"
    /\ pc' = "fetch30"
    /\ call' = op
    /\ frame' = <<get_pattern_summary(Window10, fails)>>
    /\ queries' = <<[limit |-> Window10, fails |-> fails]>>
    /\ UNCHANGED <<store, result, args, aside>>

\* compare_patterns with the second window taken from the first window's
\* result instead of a fetch of its own
CompareFetch30_reusing_first(fails) ==
    /\ pc = "fetch30"
    /\ pc' = "fetch50"
    /\ frame' = Append(frame, frame[1])
    /\ queries' = Append(queries, [limit |-> Window30, fails |-> fails])
    /\ UNCHANGED <<store, call, result, args, aside>>

\* compare_patterns: pattern_30
CompareFetch30(fails) ==
    /\ pc = "fetch30"
    /\ pc' = "fetch50"
    /\ frame' = Append(frame, get_pattern_summary(Window30, fails))
    /\ queries' = Append(queries, [limit |-> Window30, fails |-> fails])
    /\ UNCHANGED <<store, call, result, args, aside>>

\* compare_patterns: pattern_50 and the return to the caller
CompareFetch50(fails) ==
    /\ pc = "fetch50"
    /\ LET comparison == comparison_of(frame[1], frame[2],
                                       get_pattern_summary(Window50, fails))
       IN  result' = IF call = "shift"
                     THEN [op |-> "shift", comparison |-> comparison,
                           value |-> shift_of(comparison)]
                     ELSE [op |-> "compare", value |-> comparison]
    /\ queries' = Append(queries, [limit |-> Window50, fails |-> fails])
    /\ pc' = "done"
    /\ call' = "none"
    /\ frame' = << >>
    /\ UNCHANGED <<store, args, aside>>

\* the endpoint hands the value to its client; the next request may start
Respond ==
    /\ pc = "done"
    /\ pc' = "idle"
    /\ result' = [op |-> "none"]
    /\ queries' = << >>
    /\ UNCHANGED <<store, call, frame, args, aside>>

Next ==
    \/ \E g \in GameIds, d \in DecileInputs : InsertGame(g, d)
    \/ \E n \in CountInputs, fails \in BOOLEAN : Summarize(n, fails)
    \/ \E n \in CountInputs, fails \in BOOLEAN : StrategicInsight(n, fails)
    \/ \E op \in {"compare", "shift"}, fails \in BOOLEAN : CompareFetch10(op, fails)
    \/ \E fails \in BOOLEAN : CompareFetch30(fails)
    \/ \E fails \in BOOLEAN : CompareFetch50(fails)
    \/ Respond

Spec == Init /\ [][Next]_vars

RECURSIVE SumValues(_)
\* sum(d.values())
SumValues(d) == IF d = << >> THEN 0 ELSE Head(d)[2] + SumValues(Tail(d))

\* the keys of a dict, in iteration order
DictKeys(d) == [i \in 1..Len(d) |-> d[i][1]]

AllDeciles == <<1, 2, 3, 4, 5, 6, 7, 8, 9, 10>>

\* C2: in every result of get_pattern_shift_analysis, consistent is true
\* iff the trend is STABLE, the echoed most_common_10/30/50 are the most
\* common deciles of the three windows of the one comparison the call
\* built, and the trend is the label of these echoed values; inserts may
\* happen between the three fetches.
C2_ShiftEchoesItsComparison ==
    (pc = "done" /\ result.op = "shift") =>
        LET v == result.value
            c == result.comparison
        IN  /\ v.consistent <=> (v.trend = STABLE)
            /\ v.most_common_10 = c.last_10_games.most_common_decile
            /\ v.most_common_30 = c.last_30_games.most_common_decile
            /\ v.most_common_50 = c.last_50_games.most_common_decile
            /\ v.trend = STABLE <=>
                   (v.most_common_10 = v.most_common_30
                        /\ v.most_common_30 = v.most_common_50)
            /\ v.trend = RECENT_SHIFT <=>
                   (v.most_common_10 = v.most_common_30
                        /\ v.most_common_30 # v.most_common_50)
            /\ v.trend = NEW_TREND <=>
                   (v.most_common_30 = v.most_common_50
                        /\ v.most_common_10 # v.most_common_30)
            /\ v.trend = VOLATILE <=>
                   (v.most_common_10 # v.most_common_30
                        /\ v.most_common_30 # v.most_common_50)

\* a shift analysis whose three fetches saw three different histories
\* (inserts came between them) and whose windows agree on 10 and 30 only
C2_Witness ==
    /\ pc = "done"
    /\ result.op = "shift"
    /\ result.comparison.last_10_games.game_count
           < result.comparison.last_30_games.game_count
    /\ result.comparison.last_30_games.game_count
           < result.comparison.last_50_games.game_count
    /\ result.value.most_common_10 = result.value.most_common_30
    /\ result.value.most_common_30 # result.value.most_common_50
    /\ ~result.value.consistent
    /\ result.value.trend = RECENT_SHIFT

\* C3: in every PatternAnalysis returned by get_pattern_summary the counts
\* of the decile distribution sum to game_count, also when fetched records
\* carry an out-of-range decile.
C3_CountsSumToGameCount ==
    (pc = "done" /\ result.op = "summary") =>
        SumValues(result.value.decile_distribution) = result.value.game_count

\* C7: when the fetch returns no records, get_pattern_summary returns
\* game_count 0, a distribution and percentages with the ten deciles at 0,
\* and most and least common decile 1, for every requested window size.
C7_EmptyHistory ==
    (pc = "done" /\ result.op = "summary" /\ result.games = << >>) =>
        /\ result.value.game_count = 0
        /\ DictKeys(result.value.decile_distribution) = AllDeciles
        /\ DictKeys(result.value.decile_percentages) = AllDeciles
        /\ \A d \in Deciles :
               /\ DictGet(result.value.decile_distribution, d) = 0
               /\ DictGet(result.value.decile_percentages, d) = 0
        /\ result.value.most_common_decile = 1
        /\ result.value.least_common_decile = 1

\* a summary of the largest window over an empty store
C7_Witness ==
    /\ pc = "done"
    /\ result.op = "summary"
    /\ store = {}
    /\ result.games = << >>
    /\ result.game_count = 12
    /\ result.value.game_count = 0

---------------------------------------------------------------------------
(* SpecTrend: _determine_trend applied to every triple of most-common     *)
(* deciles                                                                 *)

\* a window whose most common decile is m: one fetched game of decile m
WindowWith(m) == summary_of_games(<<[game_id |-> 1, decile |-> m]>>)

InitTrend ==
    /\ store = {}
    /\ pc = "idle"
    /\ call = "none"
    /\ frame = << >>
    /\ result = [op |-> "none"]
    /\ args \in Deciles \X Deciles \X Deciles
    /\ queries = << >>
    /\ InitAside

ApplyDetermineTrend ==
    /\ pc = "idle"
    /\ pc' = "done"
    /\ result' = [op |-> "_determine_trend",
                  value |-> _determine_trend(
                      comparison_of(WindowWith(args[1]), WindowWith(args[2]),
                                    WindowWith(args[3])))]
    /\ UNCHANGED <<store, call, frame, args, queries, aside>>

NextTrend == ApplyDetermineTrend

SpecTrend == InitTrend /\ [][NextTrend]_vars

\* C1: for every triple (m10, m30, m50) the label is STABLE iff
\* m10 = m30 = m50, RECENT_SHIFT iff m10 = m30 # m50, NEW_TREND iff
\* m30 = m50 # m10, and VOLATILE in every other case.
C1_TrendLabel ==
    result.op = "_determine_trend" =>
        LET m10 == args[1]
            m30 == args[2]
            m50 == args[3]
        IN  /\ result.value \in {STABLE, RECENT_SHIFT, NEW_TREND, VOLATILE}
            /\ result.value = STABLE <=> (m10 = m30 /\ m30 = m50)
            /\ result.value = RECENT_SHIFT <=> (m10 = m30 /\ m30 # m50)
            /\ result.value = NEW_TREND <=> (m30 = m50 /\ m10 # m30)
            /\ result.value = VOLATILE <=> (m10 # m30 /\ m30 # m50)

\* the scenario 4, 4, 7 yields RECENT_SHIFT
C1_Witness ==
    /\ result.op = "_determine_trend"
    /\ args = <<4, 4, 7>>
    /\ result.value = RECENT_SHIFT

---------------------------------------------------------------------------
(* SpecDist: analyze_decile_distribution applied to every short list of   *)
(* records, well-formed or not                                             *)

\* the records offered: no decile at all, deciles below, at and above the
\* ends of 1..10
RecordInputs ==
    {[game_id |-> 1]}
        \cup {[game_id |-> 1, decile |-> d] : d \in {-1, 0, 1, 2, 10, 11}}

GamesInputs == UNION {[1..n -> RecordInputs] : n \in 0..MaxLen}

InitDist ==
    /\ store = {}
    /\ pc = "idle"
    /\ call = "none"
    /\ frame = << >>
    /\ result = [op |-> "none"]
    /\ args \in GamesInputs
    /\ queries = << >>
    /\ InitAside

ApplyDistribution ==
    /\ pc = "idle"
    /\ pc' = "done"
    /\ result' = [op |-> "analyze_decile_distribution",
                  value |-> analyze_decile_distribution(args)]
    /\ UNCHANGED <<store, call, frame, args, queries, aside>>

NextDist == ApplyDistribution

SpecDist == InitDist /\ [][NextDist]_vars

\* the records of a list that carry decile d
WithDecile(games, d) ==
    {j \in 1..Len(games) : "decile" \in DOMAIN games[j] /\ games[j].decile = d}

\* C4: for every record list, the empty one included, the distribution has
\* exactly the keys 1..10 and its value at d is the number of records
\* whose decile is d; records with a decile outside 1..10 or without one
\* change no count.
C4_DistributionCounts ==
    result.op = "analyze_decile_distribution" =>
        /\ DictKeys(result.value) = AllDeciles
        /\ \A d \in Deciles :
               DictGet(result.value, d) = Cardinality(WithDecile(args, d))

\* a list with a record of decile 10, one out of range and one without
\* decile has been counted
C4_Witness ==
    /\ result.op = "analyze_decile_distribution"
    /\ Len(args) = 3
    /\ \E j \in 1..3 : "decile" \notin DOMAIN args[j]
    /\ \E j \in 1..3 : "decile" \in DOMAIN args[j] /\ args[j].decile = 11
    /\ DictGet(result.value, 10) = 1
    /\ SumValues(result.value) = 1

---------------------------------------------------------------------------
(* SpecStats: the extrema and the percentages of every distribution of up *)
(* to MaxTotal games                                                       *)

RECURSIVE Histories(_, _, _)
\* the non-decreasing decile sequences of length n over lo..hi: one
\* history for each way to spread n games over the deciles
Histories(n, lo, hi) ==
    IF n = 0 THEN {<< >>}
    ELSE UNION {{<<d>> \o h : h \in Histories(n - 1, d, hi)} : d \in lo..hi}

GamesOf(h) == [i \in 1..Len(h) |-> [game_id |-> i, decile |-> h[i]]]

\* the distributions the analyzer builds, and the empty dict
DistributionInputs ==
    {<< >>} \cup
    {analyze_decile_distribution(GamesOf(h)) :
        h \in UNION {Histories(n, 1, 10) : n \in 0..MaxTotal}}

InitStats ==
    /\ store = {}
    /\ pc = "idle"
    /\ call = "none"
    /\ frame = << >>
    /\ result = [op |-> "none"]
    /\ args \in DistributionInputs
    /\ queries = << >>
    /\ InitAside

ApplyExtrema ==
    /\ pc = "idle"
    /\ pc' = "done"
    /\ result' = [op |-> "extrema",
                  most |-> find_most_common_decile(args),
                  least |-> find_least_common_decile(args)]
    /\ UNCHANGED <<store, call, frame, args, queries, aside>>

ApplyPercentages ==
    /\ pc = "idle"
    /\ pc' = "done"
    /\ result' = [op |-> "calculate_decile_percentages",
                  total |-> SumValues(args),
                  value |-> calculate_decile_percentages(args, SumValues(args))]
    /\ UNCHANGED <<store, call, frame, args, queries, aside>>

NextStats == ApplyExtrema \/ ApplyPercentages

SpecStats == InitStats /\ [][NextStats]_vars

\* C5: the most common decile is the smallest decile with the largest
\* count, the least common decile the smallest decile with the smallest
\* count; both are 1 for the empty distribution.
C5_ExtremaTieBreak ==
    result.op = "extrema" =>
        IF args = << >>
        THEN result.most = 1 /\ result.least = 1
        ELSE /\ \A d \in Deciles :
                    DictGet(args, d) <= DictGet(args, result.most)
             /\ \A d \in 1..(result.most - 1) :
                    DictGet(args, d) < DictGet(args, result.most)
             /\ \A d \in Deciles :
                    DictGet(args, d) >= DictGet(args, result.least)
             /\ \A d \in 1..(result.least - 1) :
                    DictGet(args, d) > DictGet(args, result.least)

\* the scenario 3, 3, 6, 6, 1: deciles 3 and 6 tie for the most (3 wins),
\* and the deciles without a win tie for the least (2 wins)
C5_Witness ==
    /\ result.op = "extrema"
    /\ args = analyze_decile_distribution(GamesOf(<<1, 3, 3, 6, 6>>))
    /\ result.most = 3
    /\ result.least = 2

Abs(x) == IF x < 0 THEN -x ELSE x

\* C6: for counts summing to total, every percentage is count / total * 100
\* rounded to the nearest hundredth (a tie to the even hundredth), the ten
\* percentages sum to 100 within 0.1 when total > 0, and all ten are 0
\* when total = 0.
C6_Percentages ==
    result.op = "calculate_decile_percentages" =>
        /\ DictKeys(result.value) = AllDeciles
        /\ result.total = 0 =>
               \A d \in Deciles : DictGet(result.value, d) = 0
        /\ result.total > 0 =>
               /\ \A d \in Deciles :
                      LET p == DictGet(result.value, d)
                          off == p * result.total - DictGet(args, d) * 10000
                      IN  /\ 2 * Abs(off) <= result.total
                          /\ 2 * Abs(off) = result.total => p % 2 = 0
               /\ Abs(SumValues(result.value) - 10000) <= 10

\* thirds: 1 of 3 and 2 of 3 games round to 33.33 and 66.67
C6_Witness ==
    /\ result.op = "calculate_decile_percentages"
    /\ result.total = 3
    /\ \E d \in Deciles : DictGet(result.value, d) = 3333
    /\ \E d \in Deciles : DictGet(result.value, d) = 6667

---------------------------------------------------------------------------
(* SpecInsight: get_strategic_insight over every history of up to         *)
(* MaxGames games (one per spread of the games over the deciles offered)   *)

\* the stored games carry the deciles 0..6: 0 is out of range, and six
\* deciles allow more than five hot zones
InsightHistories == UNION {Histories(n, 0, 6) : n \in 0..MaxGames}

StoreOf(h) == {[game_id |-> i, decile |-> h[i]] : i \in 1..Len(h)}

InitInsight ==
    /\ store \in {StoreOf(h) : h \in InsightHistories}
    /\ pc = "idle"
    /\ call = "none"
    /\ frame = << >>
    /\ result = [op |-> "none"]
    /\ args = << >>
    /\ queries = << >>
    /\ InitAside

\* requested window sizes: the default 10, and 12, the smallest window
\* in which six deciles can be hot
InsightCounts == {10, 12}

NextInsight ==
    \E n \in InsightCounts, fails \in BOOLEAN : StrategicInsight(n, fails)

SpecInsight == InitInsight /\ [][NextInsight]_vars

\* an ascending list of deciles
Ascending(zones) ==
    \A i \in 1..Len(zones), j \in 1..Len(zones) : i < j => zones[i] < zones[j]

Members(zones) == {zones[i] : i \in 1..Len(zones)}

\* C8: hot_zones lists, in ascending order, exactly the deciles whose
\* count among the fetched games is at least 0.15 times the requested
\* window size, and cold_zones exactly the deciles whose count is 0.
C8_HotAndColdZones ==
    result.op = "insight" =>
        /\ Ascending(result.value.hot_zones)
        /\ Members(result.value.hot_zones) =
               {d \in Deciles :
                   100 * Cardinality(WithDecile(result.games, d))
                       >= 15 * result.game_count}
        /\ Ascending(result.value.cold_zones)
        /\ Members(result.value.cold_zones) =
               {d \in Deciles : Cardinality(WithDecile(result.games, d)) = 0}
        /\ \A d \in Deciles :
               DictGet(result.pattern.decile_distribution, d) =
                   Cardinality(WithDecile(result.games, d))

\* a window of 12 was requested and 4 games were fetched, 2 of them in
\* decile 3: hot by the requested size (2 >= 1.8)
C8_Witness ==
    /\ result.op = "insight"
    /\ result.game_count = 12
    /\ Len(result.games) = 4
    /\ Cardinality(WithDecile(result.games, 3)) = 2
    /\ 3 \in Members(result.value.hot_zones)
    /\ Len(result.value.hot_zones) = 1
    /\ 1 \in Members(result.value.cold_zones)

Insufficient ==
    "Insufficient data for reliable recommendations. Collect more historical games."
Widely ==
    "Pattern is widely distributed. No clear hot zone. Use standard probability-based betting."
Random ==
    "Pattern appears random. Use bankroll management and expected value calculations."
Strong(decile) ==
    "Strong pattern detected: " \o ranges[decile]
        \o " is winning frequently. Consider positioning bets in this range."
Multiple(labels) ==
    "Multiple hot zones detected: " \o labels
        \o ". Spread bets across these ranges."

\* C9: the recommendation is the insufficient-data message when the sample
\* is smaller than 10; otherwise the strong-pattern message of the zone
\* when there is one hot zone, the widely-distributed message when there
\* are more than 5, the labels of the first two or three hot zones when
\* there are 2 to 5, and the appears-random message when there is none.
C9_Recommendation ==
    result.op = "insight" =>
        LET n == result.value.sample_size
            hot == result.value.hot_zones
            said == result.value.recommendation
        IN  /\ n < 10 => said = Insufficient
            /\ (n >= 10 /\ Len(hot) = 1) => said = Strong(hot[1])
            /\ (n >= 10 /\ Len(hot) > 5) => said = Widely
            /\ (n >= 10 /\ Len(hot) = 2) =>
                   said = Multiple(ranges[hot[1]] \o ", " \o ranges[hot[2]])
            /\ (n >= 10 /\ Len(hot) \in 3..5) =>
                   said = Multiple(ranges[hot[1]] \o ", " \o ranges[hot[2]]
                                       \o ", " \o ranges[hot[3]])
            /\ (n >= 10 /\ Len(hot) = 0) => said = Random

\* four hot zones, of which the first three are listed
C9_Witness ==
    /\ result.op = "insight"
    /\ result.value.sample_size = 10
    /\ result.value.hot_zones = <<2, 3, 5, 6>>
    /\ result.value.recommendation =
           Multiple("11-20% of pot (Low), 21-30% of pot (Low-Medium), 41-50% of pot (Medium)")

\* six hot zones in a window of 12: the widely-distributed message
C9_WidelyReached ==
    /\ result.op = "insight"
    /\ Len(result.value.hot_zones) = 6
    /\ result.value.recommendation = Widely

\* the deciles with at least 1.5 games among the fetched ones
AtLeastTwo(games) ==
    {d \in Deciles : 2 * Cardinality(WithDecile(games, d)) >= 3}

\* C10 as stated: for a requested window of 10, whenever exactly one
\* decile has a count >= 1.5 the recommendation names that hot zone.
C10_SingleHotZoneNamed ==
    (result.op = "insight" /\ result.game_count = 10
         /\ Cardinality(AtLeastTwo(result.games)) = 1) =>
        \E d \in AtLeastTwo(result.games) :
            result.value.recommendation = Strong(d)

\* C10 amended: for a requested window of 10 that fetched 10 games,
\* whenever exactly one decile has a count >= 1.5 the recommendation names
\* that hot zone.
C10_SingleHotZoneNamedOfFullWindow ==
    (result.op = "insight" /\ result.game_count = 10
         /\ Len(result.games) = 10
         /\ Cardinality(AtLeastTwo(result.games)) = 1) =>
        \E d \in AtLeastTwo(result.games) :
            result.value.recommendation = Strong(d)

\* ten fetched games, three of them in decile 4 and no other decile twice
C10_Witness ==
    /\ result.op = "insight"
    /\ result.game_count = 10
    /\ Len(result.games) = 10
    /\ AtLeastTwo(result.games) = {4}
    /\ Cardinality(WithDecile(result.games, 4)) = 3
    /\ result.value.recommendation = Strong(4)

---------------------------------------------------------------------------
(* C11: the ingestion arithmetic (collector.py, database.py)               *)
(* A percentile is the exact quotient 100 * winning_ticket / pot, kept as  *)
(* the pair <<numerator, denominator>>; the stored ticket_percentile is    *)
(* round(percentile, 2), in hundredths of a percent.                       *)

MaxTicket == 30010

\* winning tickets and pot sizes (in lamports) of scraped rows
TicketInputs == 0..MaxTicket
PotInputs == {0, 7, 30000}

\* (winning_ticket / game_value_lamports) * 100 if game_value_lamports > 0
\* else 0
ticket_percentile_of(winning_ticket, game_value_lamports) ==
    IF game_value_lamports > 0
    THEN <<100 * winning_ticket, game_value_lamports>>
    ELSE <<0, 1>>

\* min(10, max(1, int((percentile / 10) + 1))) if percentile < 100 else 10
decile_of_percentile(percentile) ==
    IF percentile[1] < 100 * percentile[2]
    THEN LET bucket == (percentile[1] \div (10 * percentile[2])) + 1
         IN  IF bucket < 1 THEN 1 ELSE IF bucket > 10 THEN 10 ELSE bucket
    ELSE 10

\* SolpotScraper._extract_game_data_from_row: the fields computed from
\* the winning ticket and the pot
_extract_game_data_from_row(game_id, winning_ticket, game_value_lamports) ==
    LET ticket_percentile ==
            ticket_percentile_of(winning_ticket, game_value_lamports)
    IN  [game_id |-> game_id,
         winning_ticket |-> winning_ticket,
         ticket_percentile |->
             IF game_value_lamports > 0
             THEN round2(winning_ticket, game_value_lamports)
             ELSE 0,
         decile |-> decile_of_percentile(ticket_percentile)]

\* DatabaseManager.calculate_decile
calculate_decile(winning_ticket, pot_value_lamports) ==
    IF pot_value_lamports = 0
    THEN 1
    ELSE decile_of_percentile(<<100 * winning_ticket, pot_value_lamports>>)

InitIngest ==
    /\ store = {}
    /\ pc = "idle"
    /\ call = "none"
    /\ frame = << >>
    /\ result = [op |-> "none"]
    /\ args \in TicketInputs \X PotInputs
    /\ queries = << >>
    /\ InitAside

ApplyExtractGameData ==
    /\ pc = "idle"
    /\ pc' = "done"
    /\ result' = [op |-> "_extract_game_data_from_row",
                  value |-> _extract_game_data_from_row(1, args[1], args[2])]
    /\ UNCHANGED <<store, call, frame, args, queries, aside>>

ApplyCalculateDecile ==
    /\ pc = "idle"
    /\ pc' = "done"
    /\ result' = [op |-> "calculate_decile",
                  value |-> calculate_decile(args[1], args[2])]
    /\ UNCHANGED <<store, call, frame, args, queries, aside>>

NextIngest == ApplyExtractGameData \/ ApplyCalculateDecile

SpecIngest == InitIngest /\ [][NextIngest]_vars

\* clamp(floor(ticket_percentile / 10) + 1, 1, 10) of a percentile given in
\* hundredths of a percent
ClampedDecile(hundredths) ==
    LET bucket == (hundredths \div 1000) + 1
    IN  IF bucket < 1 THEN 1 ELSE IF bucket > 10 THEN 10 ELSE bucket

\* C11: every record produced by the ingestion code has
\* decile = clamp(floor(ticket_percentile / 10) + 1, 1, 10) for the
\* ticket_percentile stored in the record (rounded to 2 decimals), a
\* percentile of 100 giving decile 10; the decile is in 1..10, also for a
\* zero pot, and calculate_decile gives the same decile for the same
\* ticket and pot.
C11_DecileOfStoredPercentile ==
    /\ result.op = "_extract_game_data_from_row" =>
           /\ result.value.decile \in 1..10
           /\ result.value.decile =
                  ClampedDecile(result.value.ticket_percentile)
           /\ result.value.decile = calculate_decile(args[1], args[2])
    /\ result.op = "calculate_decile" => result.value \in 1..10

\* what the ingestion code does guarantee: the decile is in 1..10, it is
\* the clamped decile of the percentile before rounding, and
\* calculate_decile agrees with the scraper
C11_DecileOfExactPercentile ==
    /\ result.op = "_extract_game_data_from_row" =>
           /\ result.value.decile \in 1..10
           /\ result.value.decile = calculate_decile(args[1], args[2])
           /\ args[2] > 0 /\ args[1] < args[2] =>
                  /\ (result.value.decile - 1) * args[2] <= 10 * args[1]
                  /\ 10 * args[1] < result.value.decile * args[2]
           /\ args[2] > 0 /\ args[1] >= args[2] => result.value.decile = 10
           /\ args[2] = 0 => result.value.decile = 1
    /\ result.op = "calculate_decile" => result.value \in 1..10

\* ticket 2999 of a 30000-lamport pot: percentile 9.9966..., decile 1,
\* stored ticket_percentile 10.0
C11_RoundedAcrossBoundary ==
    /\ result.op = "_extract_game_data_from_row"
    /\ args = <<2999, 30000>>
    /\ result.value.ticket_percentile = 1000
    /\ result.value.decile = 1

---------------------------------------------------------------------------
(* SpecQuiet: one analyzer client over a table nobody writes to *)

\* lengths of the runs of equal deciles in the table at startup
RunLens == {0, 1, 8, 15, 30}

\* a history of a games in decile 3, then b in decile 2, then c (the most
\* recent) in decile 1
Runs(a, b, c) ==
    [i \in 1..(a + b + c) |-> IF i <= a THEN 3 ELSE IF i <= a + b THEN 2 ELSE 1]

QuietStores == {StoreOf(Runs(a, b, c)) : a \in RunLens, b \in RunLens, c \in RunLens}

InitQuiet ==
    /\ store \in QuietStores
    /\ pc = "idle"
    /\ call = "none"
    /\ frame = << >>
    /\ result = [op |-> "none"]
    /\ args = << >>
    /\ queries = << >>
    /\ InitAside

NextQuiet ==
    \/ \E n \in CountInputs, fails \in BOOLEAN : Summarize(n, fails)
    \/ \E n \in CountInputs, fails \in BOOLEAN : StrategicInsight(n, fails)
    \/ \E op \in {"compare", "shift"}, fails \in BOOLEAN : CompareFetch10(op, fails)
    \/ \E fails \in BOOLEAN : CompareFetch30(fails)
    \/ \E fails \in BOOLEAN : CompareFetch50(fails)
    \/ Respond

SpecQuiet == InitQuiet /\ [][NextQuiet]_vars

\* the limits of the queries issued so far by the call in progress
Limits(qs) == [i \in 1..Len(qs) |-> qs[i].limit]

\* C12: compare_patterns issues exactly three fetches, of 10, 30 and 50
\* games in that order, and over an unchanged table its last_10_games,
\* last_30_games and last_50_games are what get_pattern_summary(10), (30)
\* and (50) return for the outcome of the respective fetch; the windows
\* computed so far are each the summary of their own fetch.
C12_CompareIsThreeSummaries ==
    /\ pc = "fetch30" =>
           /\ Limits(queries) = <<Window10>>
           /\ frame = <<get_pattern_summary(Window10, queries[1].fails)>>
    /\ pc = "fetch50" =>
           /\ Limits(queries) = <<Window10, Window30>>
           /\ frame = <<get_pattern_summary(Window10, queries[1].fails),
                        get_pattern_summary(Window30, queries[2].fails)>>
    /\ pc = "done" /\ result.op = "compare" =>
           /\ Limits(queries) = <<Window10, Window30, Window50>>
           /\ result.value.last_10_games =
                  get_pattern_summary(Window10, queries[1].fails)
           /\ result.value.last_30_games =
                  get_pattern_summary(Window30, queries[2].fails)
           /\ result.value.last_50_games =
                  get_pattern_summary(Window50, queries[3].fails)

\* 53 games, the last 8 in decile 1, the 15 before in decile 2, the oldest
\* 30 in decile 3: the three windows hold 10, 30 and 50 games and have
\* three different most common deciles
C12_Witness ==
    /\ pc = "done"
    /\ result.op = "compare"
    /\ Cardinality(store) = 53
    /\ \A i \in 1..3 : ~queries[i].fails
    /\ result.value.last_10_games.game_count = 10
    /\ result.value.last_30_games.game_count = 30
    /\ result.value.last_50_games.game_count = 50
    /\ result.value.last_10_games.most_common_decile = 1
    /\ result.value.last_30_games.most_common_decile = 2
    /\ result.value.last_50_games.most_common_decile = 3

\* the analysis results an analyzer operation can return
AnalysisResults == {"summary", "insight", "compare", "shift"}

\* C13: when a record fetch of a call fails, the call returns no analysis
\* result: the failure is not reported as an analysis, in particular not
\* as the empty-history analysis.
C13_FetchFailureSurfaces ==
    pc = "done" /\ (\E i \in 1..Len(queries) : queries[i].fails) =>
        result.op \notin AnalysisResults

\* the database raised during get_pattern_summary(10) over 53 stored
\* games, and the caller received the empty-history analysis
C13_FailureReportedAsEmptyHistory ==
    /\ pc = "done"
    /\ result.op = "summary"
    /\ Cardinality(store) = 53
    /\ queries = <<[limit |-> 10, fails |-> TRUE]>>
    /\ result.value = get_pattern_summary(10, TRUE)
    /\ result.value.game_count = 0
    /\ result.value.most_common_decile = 1

\* the rows with the n largest game ids
MostRecent(n) ==
    {r \in store : Cardinality({q \in store : q.game_id > r.game_id}) < n}

\* what C14 says of one completed get_pattern_summary(n)
FetchedMostRecent(n, games, summary) ==
    /\ Len(games) = Min2(n, Cardinality(store))
    /\ {games[i] : i \in 1..Len(games)} = MostRecent(n)
    /\ \A i \in 1..Len(games), j \in 1..Len(games) :
           i < j => games[i].game_id > games[j].game_id
    /\ summary.game_count = Min2(n, Cardinality(store))

\* C14: for every table content and every count n the fetch returns
\* exactly the min(n, number of stored rows) rows with the largest
\* game_id, in descending game_id order, and get_pattern_summary(n) reports
\* game_count = min(n, number of stored rows).
C14_FetchMostRecent ==
    [][pc = "idle" /\ pc' = "done" /\ result'.op = "summary" =>
           FetchedMostRecent(result'.game_count, result'.games,
                             result'.value)]_vars

\* the same, for the fetches during which the database did not raise
C14_FetchMostRecentUnlessRaised ==
    [][pc = "idle" /\ pc' = "done" /\ result'.op = "summary"
           /\ ~queries'[1].fails =>
           FetchedMostRecent(result'.game_count, result'.games,
                             result'.value)]_vars

\* a fetch of 2 over the rows 1, 2 and 4 returned the rows 4 and 2
C14_ShortWindowReached ==
    /\ pc = "done"
    /\ result.op = "summary"
    /\ result.game_count = 2
    /\ {r.game_id : r \in store} = {1, 2, 4}
    /\ Len(result.games) = 2
    /\ result.games[1].game_id = 4
    /\ result.games[2].game_id = 2

---------------------------------------------------------------------------
(* SpecCallers: two clients calling the analyzer at once over a table      *)
(* nobody writes to. The second client's requests run the same code; its   *)
(* position, locals and result are the fields of peer.                     *)

PeerSummarize(n, fails) ==
    /\ peer.pc = "idle"
    /\ LET games == get_games_for_pattern_analysis(n, fails)
       IN  peer' = [peer EXCEPT
                       !.pc = "done",
                       !.result = [op |-> "summary", game_count |-> n,
                                   games |-> games,
                                   value |-> summary_of_games(games)],
                       !.queries = <<[limit |-> n, fails |-> fails]>>]
    /\ UNCHANGED <<store, pc, call, frame, result, args, queries,
                   imp, live_game_cache, now>>

PeerStrategicInsight(n, fails) ==
    /\ peer.pc = "idle"
    /\ LET games == get_games_for_pattern_analysis(n, fails)
           pattern == summary_of_games(games)
       IN  peer' = [peer EXCEPT
                       !.pc = "done",
                       !.result = [op |-> "insight", game_count |-> n,
                                   games |-> games, pattern |-> pattern,
                                   value |-> insight_of(pattern, n)],
                       !.queries = <<[limit |-> n, fails |-> fails]>>]
    /\ UNCHANGED <<store, pc, call, frame, result, args, queries,
                   imp, live_game_cache, now>>

PeerCompareFetch10(op, fails) ==
    /\ peer.pc = "idle"
    /\ peer' = [peer EXCEPT
                   !.pc = "fetch30",
                   !.call = op,
                   !.frame = <<get_pattern_summary(Window10, fails)>>,
                   !.queries = <<[limit |-> Window10, fails |-> fails]>>]
    /\ UNCHANGED <<store, pc, call, frame, result, args, queries,
                   imp, live_game_cache, now>>

PeerCompareFetch30(fails) ==
    /\ peer.pc = "fetch30"
    /\ peer' = [peer EXCEPT
                   !.pc = "fetch50",
                   !.frame = Append(@, get_pattern_summary(Window30, fails)),
                   !.queries = Append(@, [limit |-> Window30, fails |-> fails])]
    /\ UNCHANGED <<store, pc, call, frame, result, args, queries,
                   imp, live_game_cache, now>>

\* compare_patterns keeping its first window on the analyzer object, where
\* the other client's call overwrites it
PeerCompareFetch50_shared_window(fails) ==
    /\ peer.pc = "fetch50"
    /\ LET pattern_10 == IF frame # << >> THEN frame[1] ELSE peer.frame[1]
           comparison == comparison_of(pattern_10, peer.frame[2],
                                       get_pattern_summary(Window50, fails))
       IN  peer' = [peer EXCEPT
                       !.pc = "done",
                       !.call = "none",
                       !.frame = << >>,
                       !.result =
                           IF peer.call = "shift"
                           THEN [op |-> "shift", comparison |-> comparison,
                                 value |-> shift_of(comparison)]
                           ELSE [op |-> "compare", value |-> comparison],
                       !.queries = Append(@, [limit |-> Window50,
                                              fails |-> fails])]
    /\ UNCHANGED <<store, pc, call, frame, result, args, queries,
                   imp, live_game_cache, now>>

PeerCompareFetch50(fails) ==
    /\ peer.pc = "fetch50"
    /\ LET comparison == comparison_of(peer.frame[1], peer.frame[2],
                                       get_pattern_summary(Window50, fails))
       IN  peer' = [peer EXCEPT
                       !.pc = "done",
                       !.call = "none",
                       !.frame = << >>,
                       !.result =
                           IF peer.call = "shift"
                           THEN [op |-> "shift", comparison |-> comparison,
                                 value |-> shift_of(comparison)]
                           ELSE [op |-> "compare", value |-> comparison],
                       !.queries = Append(@, [limit |-> Window50,
                                              fails |-> fails])]
    /\ UNCHANGED <<store, pc, call, frame, result, args, queries,
                   imp, live_game_cache, now>>

PeerRespond ==
    /\ peer.pc = "done"
    /\ peer' = IdleCaller
    /\ UNCHANGED <<store, pc, call, frame, result, args, queries,
                   imp, live_game_cache, now>>

\* table sizes at startup: empty, one game, one more than the first window
CallerLens == {0, 1, 11}

CallerStores ==
    {StoreOf(h) : h \in UNION {Histories(n, 1, 2) : n \in CallerLens}}

\* args keeps the table contents the calls were started over
InitCallers ==
    /\ store \in CallerStores
    /\ pc = "idle"
    /\ call = "none"
    /\ frame = << >>
    /\ result = [op |-> "none"]
    /\ args = store
    /\ queries = << >>
    /\ InitAside

NextCallers ==
    \/ \E n \in CountInputs, fails \in BOOLEAN : Summarize(n, fails)
    \/ \E n \in CountInputs, fails \in BOOLEAN : StrategicInsight(n, fails)
    \/ \E op \in {"compare", "shift"}, fails \in BOOLEAN : CompareFetch10(op, fails)
    \/ \E fails \in BOOLEAN : CompareFetch30(fails)
    \/ \E fails \in BOOLEAN : CompareFetch50(fails)
    \/ Respond
    \/ \E n \in CountInputs, fails \in BOOLEAN : PeerSummarize(n, fails)
    \/ \E n \in CountInputs, fails \in BOOLEAN : PeerStrategicInsight(n, fails)
    \/ \E op \in {"compare", "shift"}, fails \in BOOLEAN : PeerCompareFetch10(op, fails)
    \/ \E fails \in BOOLEAN : PeerCompareFetch30(fails)
    \/ \E fails \in BOOLEAN : PeerCompareFetch50(fails)
    \/ PeerRespond

SpecCallers == InitCallers /\ [][NextCallers]_vars

\* C15: two get_pattern_summary(n) calls over an unchanged table return
\* identical results (game_count, distribution, percentages, most and
\* least common decile).
C15_SummarizeTwiceIdentical ==
    /\ pc = "done" /\ result.op = "summary"
    /\ peer.pc = "done" /\ peer.result.op = "summary"
    /\ result.game_count = peer.result.game_count
    => result.value = peer.result.value

\* the same, for two calls during which the database did not raise
C15_SummarizeTwiceIdenticalUnlessRaised ==
    /\ pc = "done" /\ result.op = "summary"
    /\ peer.pc = "done" /\ peer.result.op = "summary"
    /\ result.game_count = peer.result.game_count
    /\ ~queries[1].fails /\ ~peer.queries[1].fails
    => result.value = peer.result.value

\* two completed get_pattern_summary(10) calls over 11 stored games
C15_TwoSummariesReached ==
    /\ pc = "done" /\ result.op = "summary"
    /\ peer.pc = "done" /\ peer.result.op = "summary"
    /\ result.game_count = 10 /\ peer.result.game_count = 10
    /\ ~queries[1].fails /\ ~peer.queries[1].fails
    /\ Cardinality(store) = 11
    /\ result.value.game_count = 10

\* the result an operation returns when it runs on its own over the
\* table, given the outcomes qs of its fetches
ResultAlone(op, res, qs) ==
    IF op = "summary"
    THEN [op |-> "summary", game_count |-> res.game_count,
          games |-> get_games(res.game_count, qs[1].fails),
          value |-> get_pattern_summary(res.game_count, qs[1].fails)]
    ELSE IF op = "insight"
    THEN [op |-> "insight", game_count |-> res.game_count,
          games |-> get_games(res.game_count, qs[1].fails),
          pattern |-> get_pattern_summary(res.game_count, qs[1].fails),
          value |-> insight_of(
              get_pattern_summary(res.game_count, qs[1].fails),
              res.game_count)]
    ELSE LET comparison ==
                 comparison_of(get_pattern_summary(Window10, qs[1].fails),
                               get_pattern_summary(Window30, qs[2].fails),
                               get_pattern_summary(Window50, qs[3].fails))
         IN  IF op = "shift"
             THEN [op |-> "shift", comparison |-> comparison,
                   value |-> shift_of(comparison)]
             ELSE [op |-> "compare", value |-> comparison]

\* C17: analyzer operations never modify the table and keep no state
\* between calls: however the calls of two clients interleave, the table
\* stays what it was, each completed call returns what the operation
\* returns on its own for the same fetch outcomes, and a client that is
\* idle holds nothing of a previous call.
C17_CallsDoNotInterfere ==
    /\ store = args
    /\ pc = "done" => result = ResultAlone(result.op, result, queries)
    /\ peer.pc = "done" =>
           peer.result = ResultAlone(peer.result.op, peer.result, peer.queries)
    /\ pc = "idle" => call = "none" /\ frame = << >> /\ queries = << >>
    /\ peer.pc = "idle" => peer = IdleCaller

\* the second client's shift analysis completed while the first client was
\* between the second and third fetch of a comparison whose first fetch
\* had a different outcome
C17_Witness ==
    /\ Cardinality(store) = 11
    /\ pc = "fetch50"
    /\ queries[1].fails
    /\ peer.pc = "done"
    /\ peer.result.op = "shift"
    /\ \A i \in 1..3 : ~peer.queries[i].fails
    /\ peer.result.comparison.last_10_games.game_count = 10
    /\ peer.result.comparison.last_30_games.game_count = 11

\* the list games rearranged by the permutation p of its indices
Permuted(games, p) == [i \in 1..Len(games) |-> games[p[i]]]

\* C16: for every record list and every permutation of it, the
\* distribution computed from the permuted list is the distribution
\* computed from the list, and with it the most and the least common
\* decile.
C16_OrderIndependent ==
    result.op = "analyze_decile_distribution" =>
        \A p \in Permutations(1..Len(args)) :
            LET permuted == analyze_decile_distribution(Permuted(args, p))
            IN  /\ permuted = result.value
                /\ find_most_common_decile(permuted) =
                       find_most_common_decile(result.value)
                /\ find_least_common_decile(permuted) =
                       find_least_common_decile(result.value)

\* a list of four different records in which an out-of-range record and a
\* record without decile precede the valid ones has been counted
C16_Witness ==
    /\ result.op = "analyze_decile_distribution"
    /\ args = <<[game_id |-> 1, decile |-> 11], [game_id |-> 1],
                [game_id |-> 1, decile |-> 2], [game_id |-> 1, decile |-> 1]>>
    /\ DictGet(result.value, 1) = 1
    /\ DictGet(result.value, 2) = 1
    /\ find_most_common_decile(result.value) = 1
    /\ find_least_common_decile(result.value) = 3

---------------------------------------------------------------------------
(* SpecImport: POST /api/v1/import (main.import_games, insert_games,       *)
(* insert_game) next to another writer of the table                        *)

MaxBatch == 2

\* the games a request can carry
ImportIds == {1, 2}
ImportDeciles == {1, 2}
GameImports == [game_id : ImportIds, decile : ImportDeciles]
ImportRequests == UNION {[1..n -> GameImports] : n \in 0..MaxBatch}

\* how a query ends: it returns, it raises without effect, or (an insert)
\* it raises after the row was written
SelectOutcomes == {"ok", "raised"}
InsertOutcomes == {"ok", "raised", "raised_after_write"}

\* the row insert_game writes for a game
RowOf(game) == [game_id |-> game["game_id"], decile |-> game["decile"]]

\* the game the insert_game call in progress was given
CurrentGame == imp.games[Len(imp.returned) + 1]

\* insert_game returns value to the loop of insert_games; why records the
\* branch taken and wrote whether the call wrote its row
insert_game_returns(value, why, wrote) ==
    [imp EXCEPT
        !.returned = Append(@, [value |-> value, why |-> why,
                                wrote |-> wrote]),
        !.inserted = IF value THEN @ + 1 ELSE @,
        !.pc = IF Len(imp.returned) + 1 = Len(imp.games)
               THEN "respond" ELSE "select"]

\* import_games: the request arrives; an empty one is answered 400
ImportGames(games) ==
    /\ imp.pc = "idle"
    /\ imp' = IF games = << >>
              THEN [IdleImport EXCEPT !.response = Some([status |-> 400])]
              ELSE [IdleImport EXCEPT !.pc = "select",
                                      !.games = games,
                                      !.total = Len(games)]
    /\ UNCHANGED <<store, pc, call, frame, result, args, queries,
                   peer, live_game_cache, now>>

\* insert_game: the select of the game_id
ImportSelect(outcome) ==
    /\ imp.pc = "select"
    /\ imp' = IF outcome = "raised"
              THEN insert_game_returns(FALSE, "raised", FALSE)
              ELSE IF \E r \in store : r.game_id = CurrentGame["game_id"]
              THEN insert_game_returns(FALSE, "exists", FALSE)
              ELSE [imp EXCEPT !.pc = "insert"]
    /\ UNCHANGED <<store, pc, call, frame, result, args, queries,
                   peer, live_game_cache, now>>

\* insert_game writing with an upsert: a row of the same game_id written
\* since the select is replaced
ImportInsert_upsert(outcome) ==
    /\ imp.pc = "insert"
    /\ IF outcome = "raised"
       THEN /\ imp' = insert_game_returns(FALSE, "raised", FALSE)
            /\ store' = store
       ELSE /\ store' = {r \in store : r.game_id # CurrentGame["game_id"]}
                            \cup {RowOf(CurrentGame)}
            /\ imp' = IF outcome = "ok"
                      THEN insert_game_returns(TRUE, "inserted", TRUE)
                      ELSE insert_game_returns(FALSE, "raised", TRUE)
    /\ UNCHANGED <<pc, call, frame, result, args, queries,
                   peer, live_game_cache, now>>

\* insert_game: the insert; game_id is the primary key, so the insert of a
\* game_id written since the select raises
ImportInsert(outcome) ==
    /\ imp.pc = "insert"
    /\ IF outcome = "raised"
       THEN /\ imp' = insert_game_returns(FALSE, "raised", FALSE)
            /\ store' = store
       ELSE IF \E r \in store : r.game_id = CurrentGame["game_id"]
       THEN /\ imp' = insert_game_returns(FALSE, "exists", FALSE)
            /\ store' = store
       ELSE /\ store' = store \cup {RowOf(CurrentGame)}
            /\ imp' = IF outcome = "ok"
                      THEN insert_game_returns(TRUE, "inserted", TRUE)
                      ELSE insert_game_returns(FALSE, "raised", TRUE)
    /\ UNCHANGED <<pc, call, frame, result, args, queries,
                   peer, live_game_cache, now>>

\* import_games: the ImportResponse built from insert_games' (total,
\* inserted)
ImportRespond ==
    /\ imp.pc = "respond"
    /\ imp' = [imp EXCEPT
                  !.pc = "idle",
                  !.response =
                      Some([status |-> 200,
                            success |-> TRUE,
                            total_games |-> imp.total,
                            newly_inserted |-> imp.inserted,
                            duplicates_skipped |-> imp.total - imp.inserted])]
    /\ UNCHANGED <<store, pc, call, frame, result, args, queries,
                   peer, live_game_cache, now>>

InitImport ==
    /\ store = {}
    /\ pc = "idle"
    /\ call = "none"
    /\ frame = << >>
    /\ result = [op |-> "none"]
    /\ args = << >>
    /\ queries = << >>
    /\ InitAside

NextImport ==
    \/ \E games \in ImportRequests : ImportGames(games)
    \/ \E outcome \in SelectOutcomes : ImportSelect(outcome)
    \/ \E outcome \in InsertOutcomes : ImportInsert(outcome)
    \/ ImportRespond
    \/ \E g \in ImportIds, d \in ImportDeciles : InsertGame(g, d)

SpecImport == InitImport /\ [][NextImport]_vars

\* the step is the return of an insert_game call
InsertGameReturns == Len(imp'.returned) = Len(imp.returned) + 1

\* the value that call returned
Returned == imp'.returned[Len(imp'.returned)]

\* no row is removed or changed, and no game_id has two rows
RowsKept ==
    /\ \A r \in store : r \in store'
    /\ \A r \in store', q \in store' : r.game_id = q.game_id => r = q

\* C18: the table holds at most one row per game_id and a stored row is
\* never overwritten: insert_game for a game_id in the table returns False
\* and leaves the table unchanged, and insert_game for a new game_id adds
\* exactly that row and returns True (so a game_id repeated in one batch is
\* stored once, the first occurrence winning).
C18_InsertOncePerGameId ==
    [][/\ RowsKept
       /\ InsertGameReturns =>
              IF \E r \in store : r.game_id = CurrentGame["game_id"]
              THEN Returned.value = FALSE /\ store' = store
              ELSE /\ Returned.value = TRUE
                   /\ store' = store \cup {RowOf(CurrentGame)}]_vars

\* C18 as amended: as C18, except that an insert_game call for a new
\* game_id during which a database query raises returns False, the table
\* being left unchanged or holding exactly that row in addition.
C18_InsertOncePerGameIdUnlessRaised ==
    [][/\ RowsKept
       /\ InsertGameReturns =>
              IF \E r \in store : r.game_id = CurrentGame["game_id"]
              THEN Returned.value = FALSE /\ store' = store
              ELSE \/ /\ Returned.value = TRUE
                      /\ Returned.why = "inserted"
                      /\ store' = store \cup {RowOf(CurrentGame)}
                   \/ /\ Returned.value = FALSE
                      /\ Returned.why = "raised"
                      /\ store' \in {store, store \cup {RowOf(CurrentGame)}}]_vars

\* a batch with game_id 1 twice, with different deciles: the first was
\* inserted, the second found the row and was skipped
C18_Witness ==
    /\ imp.games = <<[game_id |-> 1, decile |-> 1], [game_id |-> 1, decile |-> 2]>>
    /\ imp.returned = <<[value |-> TRUE, why |-> "inserted", wrote |-> TRUE],
                        [value |-> FALSE, why |-> "exists", wrote |-> FALSE]>>
    /\ store = {[game_id |-> 1, decile |-> 1]}

\* the number of insert_game calls of the request that ended as why
Ended(why) ==
    Cardinality({i \in 1..Len(imp.returned) : imp.returned[i].why = why})

\* C19: the response to a request with at least one game reports
\* total_games = the number of games in the request, newly_inserted = the
\* number of rows the call added, duplicates_skipped = the number of
\* request games not stored because their game_id was already present,
\* and total_games = newly_inserted + duplicates_skipped; an empty request
\* is answered 400 and no insert_game is called.
C19_ImportResponseCounts ==
    imp.response # None =>
        LET response == imp.response[1]
        IN  IF response.status = 400
            THEN imp.games = << >> /\ imp.returned = << >>
            ELSE /\ imp.games # << >>
                 /\ response.total_games = Len(imp.games)
                 /\ response.newly_inserted =
                        Cardinality({i \in 1..Len(imp.returned) :
                                        imp.returned[i].wrote})
                 /\ response.duplicates_skipped = Ended("exists")
                 /\ response.total_games =
                        response.newly_inserted + response.duplicates_skipped

\* the same with duplicates_skipped read as the number of insert_game
\* calls that returned False
C19_ImportResponseCountsFalseReturns ==
    imp.response # None =>
        LET response == imp.response[1]
        IN  IF response.status = 400
            THEN imp.games = << >> /\ imp.returned = << >>
            ELSE /\ imp.games # << >>
                 /\ response.total_games = Len(imp.games)
                 /\ response.newly_inserted =
                        Cardinality({i \in 1..Len(imp.returned) :
                                        imp.returned[i].value})
                 /\ response.duplicates_skipped =
                        Cardinality({i \in 1..Len(imp.returned) :
                                        ~imp.returned[i].value})
                 /\ response.total_games =
                        response.newly_inserted + response.duplicates_skipped

\* one new game was sent, the select raised, and the response reports
\* success with one duplicate skipped
C19_FailureCountedAsDuplicate ==
    /\ imp.response # None
    /\ imp.response[1].status = 200
    /\ imp.games = <<[game_id |-> 1, decile |-> 1]>>
    /\ imp.returned = <<[value |-> FALSE, why |-> "raised", wrote |-> FALSE]>>
    /\ store = {}
    /\ imp.response[1].success
    /\ imp.response[1].newly_inserted = 0
    /\ imp.response[1].duplicates_skipped = 1

---------------------------------------------------------------------------
(* SpecLive: the live game cache (main.update_live_game, get_live_game)    *)
(* Times are whole seconds; last_updated holds the time its isoformat      *)
(* string denotes, which fromisoformat gives back.                         *)

MaxClock == 32

\* "if age > 30"
StaleAfter == 30

\* bodies of POST /api/v1/live-game: the empty object and two game states
LiveGameInputs == {<< >>, <<<<"pot_value", 1>>>>, <<<<"pot_value", 2>>>>}

\* Python truthiness of live_game_cache["data"]: None and the empty dict
\* are false
Truthy(data) == data # None /\ data[1] # << >>

\* time passes
Tick ==
    /\ now < MaxClock
    /\ now' = now + 1
    /\ UNCHANGED <<store, pc, call, frame, result, args, queries,
                   peer, imp, live_game_cache>>

\* POST /api/v1/live-game
update_live_game(game_data) ==
    /\ live_game_cache' = [data |-> Some(game_data), last_updated |-> Some(now)]
    /\ result' = [op |-> "update_live_game", success |-> TRUE]
    /\ UNCHANGED <<store, pc, call, frame, args, queries, peer, imp, now>>

\* GET /api/v1/live-game; at is the time of the response
get_live_game ==
    /\ result' =
           IF ~Truthy(live_game_cache.data)
           THEN [op |-> "get_live_game", at |-> now,
                 available |-> FALSE, data |-> None]
           ELSE IF /\ live_game_cache.last_updated # None
                   /\ now - live_game_cache.last_updated[1] > StaleAfter
           THEN [op |-> "get_live_game", at |-> now,
                 available |-> FALSE, data |-> None]
           ELSE [op |-> "get_live_game", at |-> now,
                 available |-> TRUE, data |-> live_game_cache.data]
    /\ UNCHANGED <<store, pc, call, frame, args, queries, aside>>

InitLive ==
    /\ store = {}
    /\ pc = "idle"
    /\ call = "none"
    /\ frame = << >>
    /\ result = [op |-> "none"]
    /\ args = << >>
    /\ queries = << >>
    /\ InitAside

NextLive ==
    \/ Tick
    \/ \E game_data \in LiveGameInputs : update_live_game(game_data)
    \/ get_live_game

SpecLive == InitLive /\ [][NextLive]_vars

\* the step is a response of get_live_game
GetLiveGameResponds == result'.op = "get_live_game" /\ result' # result

\* C20: get_live_game returns available = true with the data of the most
\* recent update iff some update has happened and the most recent one is
\* at most 30 seconds old; otherwise it returns available = false with
\* data = null; it never changes the cache.
C20_LiveGameFreshness ==
    [][GetLiveGameResponds =>
           /\ live_game_cache' = live_game_cache
           /\ IF /\ live_game_cache.last_updated # None
                 /\ now - live_game_cache.last_updated[1] <= StaleAfter
              THEN /\ result'.available
                   /\ result'.data = live_game_cache.data
              ELSE /\ ~result'.available
                   /\ result'.data = None]_vars

\* the same for updates that carry a non-empty object
C20_LiveGameFreshnessOfNonEmptyData ==
    [][GetLiveGameResponds =>
           /\ live_game_cache' = live_game_cache
           /\ IF /\ live_game_cache.last_updated # None
                 /\ live_game_cache.data # Some(<< >>)
                 /\ now - live_game_cache.last_updated[1] <= StaleAfter
              THEN /\ result'.available
                   /\ result'.data = live_game_cache.data
              ELSE /\ ~result'.available
                   /\ result'.data = None]_vars

\* an update 30 seconds old was served, and one 31 seconds old was not
C20_ServedAtThirty ==
    /\ result.op = "get_live_game"
    /\ result.at = 30
    /\ result.available
    /\ result.data = Some(<<<<"pot_value", 1>>>>)
    /\ live_game_cache.last_updated = Some(0)

C20_StaleAtThirtyOne ==
    /\ result.op = "get_live_game"
    /\ result.at = 32
    /\ ~result.available
    /\ now = 32
    /\ live_game_cache = [data |-> Some(<<<<"pot_value", 2>>>>),
                          last_updated |-> Some(1)]

\* the empty object was posted and get_live_game, asked in the same
\* second, reported no data
C20_EmptyUpdateUnavailable ==
    /\ result.op = "get_live_game"
    /\ result.at = now
    /\ ~result.available
    /\ live_game_cache = [data |-> Some(<< >>), last_updated |-> Some(now)]

---------------------------------------------------------------------------
(* SpecHot: get_strategic_insight over tables that spread their games over *)
(* seven deciles, one more than the number of hot zones a window allows    *)

MaxPerDecile == 2

HotDeciles == 1..7

RECURSIVE GamesUpTo(_, _)
\* the number of games of the deciles 1..d in the spread c
GamesUpTo(c, d) == IF d = 0 THEN 0 ELSE c[d] + GamesUpTo(c, d - 1)

\* a table with c[d] games in each decile d, the games of a higher decile
\* being the more recent ones
SpreadStore(c) ==
    UNION {{[game_id |-> GamesUpTo(c, d - 1) + k, decile |-> d] : k \in 1..c[d]}
              : d \in HotDeciles}

HotStores == {SpreadStore(c) : c \in [HotDeciles -> 0..MaxPerDecile]}

\* requested window sizes: 6 and 12 allow six hot zones, 7, 10 and 13 the
\* next threshold
HotCounts == {1, 2, 6, 7, 10, 12, 13}

InitHot ==
    /\ store \in HotStores
    /\ pc = "idle"
    /\ call = "none"
    /\ frame = << >>
    /\ result = [op |-> "none"]
    /\ args = << >>
    /\ queries = << >>
    /\ InitAside

NextHot ==
    \E n \in HotCounts, fails \in BOOLEAN : StrategicInsight(n, fails)

SpecHot == InitHot /\ [][NextHot]_vars

\* C21: get_strategic_insight(n) reports at most 6 hot zones for every
\* window size n and every table content, and at most 5 for n = 10, so
\* that the widely-distributed recommendation is never given for n = 10.
C21_AtMostSixHotZones ==
    result.op = "insight" =>
        /\ Len(result.games) <= result.game_count
        /\ Len(result.value.hot_zones) <= 6
        /\ result.game_count = 10 =>
               /\ Len(result.value.hot_zones) <= 5
               /\ result.value.recommendation # Widely

\* 14 stored games, two in each of seven deciles: a window of 12 has six
\* hot zones
C21_Witness ==
    /\ result.op = "insight"
    /\ Cardinality(store) = 14
    /\ result.game_count = 12
    /\ Len(result.games) = 12
    /\ result.value.hot_zones = <<2, 3, 4, 5, 6, 7>>
    /\ result.value.recommendation = Widely

\* the same table: a window of 10 has five hot zones
C21_FiveOfTenReached ==
    /\ result.op = "insight"
    /\ Cardinality(store) = 14
    /\ result.game_count = 10
    /\ result.value.hot_zones = <<3, 4, 5, 6, 7>>
    /\ result.value.recommendation # Widely

\* the windows of a comparison are nested: game counts and the count of
\* every decile do not decrease from the 10- to the 30- to the 50-window
Nested(comparison) ==
    LET p10 == comparison.last_10_games
        p30 == comparison.last_30_games
        p50 == comparison.last_50_games
    IN  /\ p10.game_count <= p30.game_count
        /\ p30.game_count <= p50.game_count
        /\ \A d \in Deciles :
               /\ DictGet(p10.decile_distribution, d)
                      <= DictGet(p30.decile_distribution, d)
               /\ DictGet(p30.decile_distribution, d)
                      <= DictGet(p50.decile_distribution, d)

\* C22: over an unchanged table the windows of every compare_patterns
\* result are nested: game_count of the 10-window <= that of the 30-window
\* <= that of the 50-window, and likewise the count of every decile.
C22_WindowsNested ==
    pc = "done" /\ result.op = "compare" => Nested(result.value)

\* the same for the comparisons during whose fetches the database did not
\* raise
C22_WindowsNestedUnlessRaised ==
    /\ pc = "done" /\ result.op = "compare"
    /\ \A i \in 1..3 : ~queries[i].fails
    => Nested(result.value)

\* 53 stored games; the second fetch raised: the 10-window counts 10
\* games, the 30-window none
C22_MiddleWindowEmpty ==
    /\ pc = "done" /\ result.op = "compare"
    /\ Cardinality(store) = 53
    /\ ~queries[1].fails /\ queries[2].fails /\ ~queries[3].fails
    /\ result.value.last_10_games.game_count = 10
    /\ result.value.last_30_games.game_count = 0
    /\ result.value.last_50_games.game_count = 50

---------------------------------------------------------------------------
(* SpecRace: compare_patterns / get_pattern_shift_analysis while another   *)
(* client inserts games between the three fetches                          *)

MaxNew == 2

\* the table at startup: empty, or eleven games (one more than the first
\* window), the oldest in decile 2
RaceStores == {StoreOf(<< >>), StoreOf(Runs(0, 1, 10))}

\* game ids offered to insert_game: one that may be stored already and
\* new, more recent ones
RaceIds == 11..(11 + MaxNew)

\* args keeps the table contents at startup
InitRace ==
    /\ store \in RaceStores
    /\ pc = "idle"
    /\ call = "none"
    /\ frame = << >>
    /\ result = [op |-> "none"]
    /\ args = store
    /\ queries = << >>
    /\ InitAside

NextRace ==
    \/ \E g \in RaceIds, d \in {1, 2} : InsertGame(g, d)
    \/ \E op \in {"compare", "shift"}, fails \in BOOLEAN : CompareFetch10(op, fails)
    \/ \E fails \in BOOLEAN : CompareFetch30(fails)
    \/ \E fails \in BOOLEAN : CompareFetch50(fails)
    \/ Respond

SpecRace == InitRace /\ [][NextRace]_vars

\* the limit most recent of the given rows
FetchFrom(rows, limit) ==
    LET ordered == OrderDesc(rows)
    IN  SubSeq(ordered, 1, Min2(limit, Len(ordered)))

\* the analysis of the limit most recent of the given rows
WindowOver(rows, limit) == summary_of_games(FetchFrom(rows, limit))

\* the analysis a fetch over the given rows leads to: the empty analysis
\* when the database raised
WindowFetched(rows, limit, fails) ==
    IF fails THEN summary_of_games(<< >>) ELSE WindowOver(rows, limit)

\* the comparison a completed compare_patterns or
\* get_pattern_shift_analysis call worked with
ComparisonOf(res) == IF res.op = "shift" THEN res.comparison ELSE res.value

\* the tables that contain lo and are contained in hi
Between(lo, hi) == {lo \cup added : added \in SUBSET (hi \ lo)}

\* C23: within one compare_patterns call the three window analyses
\* describe the same table contents, also when insert_game calls
\* interleave between the fetches: there is one table whose 10, 30 and 50
\* most recent rows are the rows counted in the three windows (so that the
\* rows of the 10-window are the most recent of the 30-window, and those
\* of the 30-window the most recent of the 50-window). Stated for the
\* calls during which the database did not raise.
C23_WindowsOfOneTable ==
    /\ pc = "done" /\ result.op \in {"compare", "shift"}
    /\ \A i \in 1..3 : ~queries[i].fails
    => \E table \in Between(args, store) :
           /\ ComparisonOf(result).last_10_games = WindowOver(table, Window10)
           /\ ComparisonOf(result).last_30_games = WindowOver(table, Window30)
           /\ ComparisonOf(result).last_50_games = WindowOver(table, Window50)

\* C23 as amended: the three window analyses describe the table at the
\* three successive moments of their fetches: each is the analysis of the
\* most recent rows of the table as it was at its own fetch (the empty
\* analysis when that fetch raised), and each of these tables contains the
\* one before, rows being only added.
C23_WindowsOfSuccessiveTables ==
    pc = "done" /\ result.op \in {"compare", "shift"} =>
        \E t10 \in Between(args, store) :
            /\ ComparisonOf(result).last_10_games =
                   WindowFetched(t10, Window10, queries[1].fails)
            /\ \E t30 \in Between(t10, store) :
                   /\ ComparisonOf(result).last_30_games =
                          WindowFetched(t30, Window30, queries[2].fails)
                   /\ \E t50 \in Between(t30, store) :
                          ComparisonOf(result).last_50_games =
                              WindowFetched(t50, Window50, queries[3].fails)

\* eleven games at startup, one inserted before the second and one before
\* the third fetch: the windows count 10, 12 and 13 games, and the
\* 10-window holds no game of decile 1 where the 30-window holds one
C23_Witness ==
    /\ pc = "done"
    /\ result.op = "shift"
    /\ Cardinality(args) = 11
    /\ Cardinality(store) = 13
    /\ \A i \in 1..3 : ~queries[i].fails
    /\ result.comparison.last_10_games.game_count = 10
    /\ result.comparison.last_30_games.game_count = 12
    /\ result.comparison.last_50_games.game_count = 13

=============================================================================
